---- MODULE Spec2Model ----
(***************************************************************************)
(* Model of src/app.py, the "Chatbot OPS" Streamlit script: the cached     *)
(* schema loader get_database_schema, the query synthesizer                *)
(* get_sql_query_from_llm, the sanitizer and executor execute_sql_query,   *)
(* the answer synthesizer get_final_response_from_llm and the module-level *)
(* chat logic that sequences them for one user turn per script run.        *)
(*                                                                         *)
(* Texts are sequences of characters, so that the regular                  *)
(* expression of lines 127 and 189 is modelled by what it matches.         *)
(*                                                                         *)
(* Calls that can raise: the six dictionary-store fetches, the two model   *)
(* calls, the database calls inside the try block of execute_sql_query,    *)
(* json.dumps on a value it cannot serialize, the rendering of attribute   *)
(* data without records, and st.error in the two except blocks (lines 156  *)
(* and 204), on which the release of the connection and the append of the  *)
(* error turn depend.  conn.close() and the display calls st.markdown,     *)
(* st.warning, st.chat_message and st.spinner return.  One script run is   *)
(* in progress at a time.                                                  *)
(***************************************************************************)
EXTENDS Integers, Sequences, FiniteSets, TLC

VARIABLES
    pc,              \* position of the script run ("Idle": no run in progress)
    store,           \* content of the dictionary store (external, read-only)
    schema_cache,    \* st.cache_data entry of get_database_schema (line 42)
    fetched,         \* record sets fetched so far by get_database_schema
    messages,        \* st.session_state.messages
    prompt,          \* value of st.chat_input in this run (line 180)
    raw,             \* response.text of the query synthesis call (line 120)
    sql_query,       \* sql_query of the chat logic after line 189
    query,           \* query of execute_sql_query after line 127
    conn,            \* local conn of execute_sql_query: "None", "open", "closed"
    openConns,       \* connections the database server currently holds open
    description,     \* cur.description after cur.execute
    data,            \* local data of execute_sql_query: the fetched rows
    rowcount,        \* cur.rowcount after cur.execute
    results_as_dict, \* local results_as_dict of execute_sql_query
    db_result,       \* db_result of the chat logic (line 193)
    exc,             \* the exception being handled or propagating, or "None"
    notices,         \* st.error / st.warning boxes shown in this run
    calls            \* the calls and appends of this run, in order

vars == << pc, store, schema_cache, fetched, messages, prompt, raw, sql_query,
           query, conn, openConns, description, data, rowcount, results_as_dict,
           db_result, exc, notices, calls >>

(***************************************************************************)
(* Bounds of the model.                                                    *)
(***************************************************************************)
\* user turns per session
MaxTurns == 2
\* rows of a fetched result set
MaxRows == 2
\* length of the raw texts enumerated exhaustively for the sanitizer
MaxLen == 6
\* length of the statement body between two fence lines
MaxBody == 3
\* length of the text before and after an opening fence tagged sql
MaxPad == 1

(***************************************************************************)
(* Texts.                                                                  *)
(***************************************************************************)
RECURSIVE Texts(_, _)
\* every text over the characters A of length at most n
Texts(A, n) ==
    IF n = 0 THEN { <<>> }
    ELSE LET shorter == Texts(A, n - 1)
         IN  shorter \cup { Append(t, c) : t \in shorter, c \in A }

\* the backtick, U+0060 (a string of the language cannot hold it)
BT == "BACKTICK"
NL == "\n"
SP == " "

\* the literals of the pattern of lines 127 and 189
Fence == << BT, BT, BT >>
OpenFence == << BT, BT, BT, "s", "q", "l" >>

\* \s of the pattern and the characters str.strip() removes
IsSpace(c) == c \in { SP, NL }

\* the text lit stands in t at position p
HasAt(t, p, lit) ==
    /\ p + Len(lit) - 1 <= Len(t)
    /\ SubSeq(t, p, p + Len(lit) - 1) = lit

RECURSIVE WsEnd(_, _)
\* \s* (greedy) from position p: the first position it does not consume
WsEnd(t, p) ==
    IF p > Len(t) \/ ~IsSpace(t[p]) THEN p ELSE WsEnd(t, p + 1)

\* ^ under re.MULTILINE: start of the text or just after a newline
AtLineStart(t, p) == p = 1 \/ t[p - 1] = NL

\* $ under re.MULTILINE: end of the text or just before a newline
AtLineEnd(t, p) == p = Len(t) + 1 \/ t[p] = NL

SetMax(S) == CHOOSE x \in S : \A y \in S : y <= x

\* first alternative, ^\s*{3 backticks}sql, tried at p: position after the match, 0 if none
MatchOpen(t, p) ==
    IF AtLineStart(t, p) /\ HasAt(t, WsEnd(t, p), OpenFence)
    THEN WsEnd(t, p) + Len(OpenFence)
    ELSE 0

\* second alternative, {3 backticks}\s*$, tried at p: \s* gives back characters until $
\* holds; position after the match, 0 if none
MatchClose(t, p) ==
    IF HasAt(t, p, Fence)
    THEN LET ends == { k \in (p + 3)..WsEnd(t, p + 3) : AtLineEnd(t, k) }
         IN  IF ends = {} THEN 0 ELSE SetMax(ends)
    ELSE 0

\* the pattern tried at p: the alternatives in order
MatchAt(t, p) ==
    IF MatchOpen(t, p) # 0 THEN MatchOpen(t, p) ELSE MatchClose(t, p)

RECURSIVE ReSub(_, _)
\* re.sub(pattern, empty, t, flags=re.MULTILINE) from position p: leftmost
\* non-overlapping matches are dropped, every other character is kept
ReSub(t, p) ==
    IF p > Len(t) THEN <<>>
    ELSE IF MatchAt(t, p) # 0 THEN ReSub(t, MatchAt(t, p))
    ELSE << t[p] >> \o ReSub(t, p + 1)

RECURSIVE LStrip(_)
LStrip(t) == IF t # <<>> /\ IsSpace(Head(t)) THEN LStrip(Tail(t)) ELSE t

RECURSIVE RStrip(_)
RStrip(t) ==
    IF t # <<>> /\ IsSpace(t[Len(t)]) THEN RStrip(SubSeq(t, 1, Len(t) - 1)) ELSE t

\* str.strip()
Strip(t) == RStrip(LStrip(t))

\* mutant: the substitution without the final strip()
SanitizeNoStrip(t) == ReSub(t, 1)

\* re.sub(pattern, empty, t, flags=re.MULTILINE).strip(), lines 127 and 189
Sanitize(t) == Strip(ReSub(t, 1))

(***************************************************************************)
(* Values the database delivers and the normalized result.                 *)
(* A value is [t, a, b]: t its Python type; an int is a, a Decimal is      *)
(* a / 10^b (coefficient and decimal places), a float is a / 2^b, a date   *)
(* is the day a.                                                           *)
(***************************************************************************)
Val(t, a, b) == [t |-> t, a |-> a, b |-> b]

\* 42, Decimal('12.50'), datetime.date: what psycopg2 returns for an
\* integer, a numeric and a date column
DbValues == { Val("int", 42, 0), Val("Decimal", 1250, 2), Val("date", 19000, 0) }

\* the types json.dumps serializes (line 170)
JsonTypes == { "NoneType", "bool", "int", "float", "str" }

RECURSIVE Pow(_, _)
Pow(x, n) == IF n = 0 THEN 1 ELSE x * Pow(x, n - 1)

RECURSIVE Dyadic(_, _)
\* a / 2^b in lowest terms
Dyadic(a, b) ==
    IF b > 0 /\ a % 2 = 0 THEN Dyadic(a \div 2, b - 1) ELSE Val("float", a, b)

\* float(value) of a Decimal a / 10^b whose value a binary float holds
\* exactly (5^b divides a): the float a / 5^b / 2^b
FloatOfDecimal(v) == Dyadic(v.a \div Pow(5, v.b), v.b)

\* lines 147-148: isinstance(value, Decimal) -> float(value)
Coerce(v) == IF v.t = "Decimal" THEN FloatOfDecimal(v) ELSE v

Range(f) == { f[i] : i \in DOMAIN f }

\* dict(zip(column_names, row)), line 143: a later column of the same name
\* replaces an earlier one
DictZip(column_names, row) ==
    [ n \in Range(column_names) |->
        row[SetMax({ j \in DOMAIN column_names : column_names[j] = n })] ]

\* lines 145-148 on one row mapping
CoerceRow(row_dict) == [ n \in DOMAIN row_dict |-> Coerce(row_dict[n]) ]

\* the three results execute_sql_query can return: a list of row mappings,
\* the status dict, None
RowsResult(rows) == [kind |-> "list", rows |-> rows, message |-> <<>>]
StatusResult(n) ==
    [kind |-> "dict", rows |-> <<>>, message |-> << n, " linhas afetadas." >>]
NoneResult == [kind |-> "None", rows |-> <<>>, message |-> <<>>]

\* mutant: an empty fetch is reported like a statement without a result set
NormalizeEmptyAsStatus(column_names, rows) ==
    IF rows = <<>> THEN StatusResult(0)
    ELSE RowsResult([ i \in DOMAIN rows |-> CoerceRow(DictZip(column_names, rows[i])) ])

\* lines 141-148: the fetched rows as coerced row mappings, in fetch order
Normalize(column_names, rows) ==
    RowsResult([ i \in DOMAIN rows |-> CoerceRow(DictZip(column_names, rows[i])) ])

\* json.dumps(data, indent=2) of line 170 raises TypeError on any other type
JsonSerializable(result) ==
    \A i \in DOMAIN result.rows :
        \A n \in DOMAIN result.rows[i] : result.rows[i][n].t \in JsonTypes

(***************************************************************************)
(* What the collaborators can answer.                                      *)
(***************************************************************************)
\* the six record sets of get_database_schema, in fetch order (lines 46-60)
DicTables == << "omni_dic_tabela", "omni_dic_atributo", "omni_dic_constraint",
                "omni_dic_dominio", "omni_dic_conceito", "omni_dic_sql_exemplo" >>

\* the store holds attribute records or none; the other record sets hold rows
StoreContents ==
    { [ k \in DOMAIN DicTables |-> IF k = 2 THEN a ELSE "rows" ] :
        a \in { "rows", "empty" } }

NoSchema == << >>

Prompts == { "q" }
NoPrompt == "None"

\* column descriptors of a statement with a result set; None otherwise
Descriptions == { << "n" >>, << "n", "d" >>, << "n", "n" >> }
NoDescription == << >>

\* the row tuples the database can deliver for a statement
DbRows(column_names) ==
    IF Len(column_names) = 1
    THEN { << v >> : v \in DbValues }
    ELSE { << Val("int", 42, 0), Val("Decimal", 1250, 2) >>,
           << Val("Decimal", 1250, 2), Val("int", 42, 0) >> }

RECURSIVE Seqs(_, _)
Seqs(S, n) ==
    IF n = 0 THEN { <<>> }
    ELSE LET shorter == Seqs(S, n - 1)
         IN  shorter \cup { Append(q, x) : q \in shorter, x \in S }

RowCounts == { -1, 3 }

\* texts the model answers a query synthesis call with: a bare statement and
\* a statement between fence lines tagged sql
LLMOutputs ==
    { << "s" >>, OpenFence \o << NL, "s", NL >> \o Fence }

FinalResponse == << "final_response" >>

User(content) == [role |-> "user", content |-> content]
Assistant(content) == [role |-> "assistant", content |-> content]
\* f"Ocorreu um erro: {e}", line 205
ErrorContent(e) == << "Ocorreu um erro: ", e >>

CountRole(msgs, r) == Cardinality({ i \in DOMAIN msgs : msgs[i].role = r })

(***************************************************************************)
(* The script run.  Streamlit runs the script top to bottom on every       *)
(* interaction; a run that raises out of the script ends there.  pc names  *)
(* the external call the run is waiting for:                               *)
(*   load_schema  a dictionary-store fetch of lines 46-60                  *)
(*   render       the rendering of lines 62-95                             *)
(*   chat_input   st.chat_input of line 180                                *)
(*   AwaitingSQL  model.generate_content of line 117                       *)
(*   connect, cursor, execute, fetchall, cur_close, conn_close             *)
(*                the database calls of lines 129-153                      *)
(*   except       st.error of line 156                                     *)
(*   AwaitingAnswer  model.generate_content of line 174                    *)
(*   Errored      st.error of line 204                                     *)
(***************************************************************************)
Init ==
    /\ pc = "Idle"
    /\ store \in StoreContents
    /\ schema_cache = NoSchema
    /\ fetched = <<>>
    /\ messages = <<>>
    /\ prompt = NoPrompt
    /\ raw = <<>>
    /\ sql_query = <<>>
    /\ query = <<>>
    /\ conn = "None"
    /\ openConns = 0
    /\ description = NoDescription
    /\ data = <<>>
    /\ rowcount = 0
    /\ results_as_dict = NoneResult
    /\ db_result = NoneResult
    /\ exc = "None"
    /\ notices = <<>>
    /\ calls = <<>>

\* the run ends: the names of the script are dropped
Finish ==
    /\ pc' = "Idle"
    /\ prompt' = NoPrompt
    /\ fetched' = <<>>
    /\ raw' = <<>>
    /\ sql_query' = <<>>
    /\ query' = <<>>
    /\ conn' = "None"
    /\ description' = NoDescription
    /\ data' = <<>>
    /\ rowcount' = 0
    /\ results_as_dict' = NoneResult
    /\ db_result' = NoneResult

\* lines 62-95: schema_info, section by section (the domain values are
\* rendered inside the attribute section)
RenderSchema(f) ==
    << "## Estrutura do Banco de Dados", f[1], << f[2], f[4] >>, f[3], f[5], f[6] >>

\* a script run starts (lines 1-97): with or without a submitted question;
\* get_database_schema is answered from the cache when it holds an entry
StartRun(p) ==
    /\ pc = "Idle"
    /\ p # NoPrompt => CountRole(messages, "user") < MaxTurns
    /\ prompt' = p
    /\ exc' = "None"
    /\ notices' = <<>>
    /\ calls' = <<>>
    /\ pc' = IF schema_cache # NoSchema THEN "chat_input" ELSE "load_schema"
    /\ UNCHANGED << store, schema_cache, fetched, messages, raw, sql_query, query,
                    conn, openConns, description, data, rowcount, results_as_dict,
                    db_result >>

\* one of the six fetches of lines 46-60 returns its records
FetchRecords ==
    /\ pc = "load_schema"
    /\ fetched' = Append(fetched, store[Len(fetched) + 1])
    /\ pc' = IF Len(fetched') = Len(DicTables) THEN "render" ELSE "load_schema"
    /\ UNCHANGED << store, schema_cache, messages, prompt, raw, sql_query, query,
                    conn, openConns, description, data, rowcount, results_as_dict,
                    db_result, exc, notices, calls >>

\* mutant: a failed fetch is taken for an empty record set and the load goes on
FetchFailsSwallowed ==
    /\ pc = "load_schema"
    /\ fetched' = Append(fetched, "empty")
    /\ pc' = IF Len(fetched') = Len(DicTables) THEN "render" ELSE "load_schema"
    /\ UNCHANGED << store, schema_cache, messages, prompt, raw, sql_query, query,
                    conn, openConns, description, data, rowcount, results_as_dict,
                    db_result, exc, notices, calls >>

\* one of the six fetches raises: nothing catches it, the run ends at line 97
FetchFails ==
    /\ pc = "load_schema"
    /\ exc' = "FetchError"
    /\ Finish
    /\ UNCHANGED << store, schema_cache, messages, openConns, notices, calls >>

\* lines 62-95: the text is rendered and cached (line 42); attribute data
\* without records has no column nm_tabela and line 68 raises KeyError
Render ==
    /\ pc = "render"
    /\ IF fetched[2] = "empty"
       THEN /\ exc' = "KeyError"
            /\ Finish
            /\ UNCHANGED schema_cache
       ELSE /\ schema_cache' = RenderSchema(fetched)
            /\ fetched' = <<>>
            /\ pc' = "chat_input"
            /\ UNCHANGED << prompt, raw, sql_query, query, conn,
                            description, data, rowcount, results_as_dict, db_result, exc >>
    /\ UNCHANGED << store, messages, openConns, notices, calls >>

\* mutant: the model is called before the user turn is appended
ChatInputCallsFirst ==
    /\ pc = "chat_input"
    /\ IF prompt = NoPrompt
       THEN /\ Finish
            /\ UNCHANGED << messages, calls >>
       ELSE /\ messages' = Append(messages, User(<< prompt >>))
            /\ calls' = calls \o << "synth_call", "user_turn" >>
            /\ pc' = "AwaitingSQL"
            /\ UNCHANGED << fetched, prompt, raw, sql_query, query, conn,
                            description, data, rowcount, results_as_dict, db_result >>
    /\ UNCHANGED << store, schema_cache, openConns, exc, notices >>

\* lines 180-188: without a question the run ends; with one the user turn is
\* appended and get_sql_query_from_llm calls the model
ChatInput ==
    /\ pc = "chat_input"
    /\ IF prompt = NoPrompt
       THEN /\ Finish
            /\ UNCHANGED << messages, calls >>
       ELSE /\ messages' = Append(messages, User(<< prompt >>))
            /\ calls' = calls \o << "user_turn", "synth_call" >>
            /\ pc' = "AwaitingSQL"
            /\ UNCHANGED << fetched, prompt, raw, sql_query, query, conn,
                            description, data, rowcount, results_as_dict, db_result >>
    /\ UNCHANGED << store, schema_cache, openConns, exc, notices >>

\* lines 117-120, 188-189, 193, 127-129: the model answers; the text is
\* stripped and sanitized, execute_sql_query sanitizes it again and connects
SynthReturns(text) ==
    /\ pc = "AwaitingSQL"
    /\ raw' = text
    /\ sql_query' = Sanitize(Strip(text))
    /\ query' = Sanitize(sql_query')
    /\ calls' = calls \o << "synth_ret", "exec_call" >>
    /\ pc' = "connect"
    /\ UNCHANGED << store, schema_cache, fetched, messages, prompt, conn, openConns,
                    description, data, rowcount, results_as_dict, db_result, exc, notices >>

\* line 117 raises: the exception reaches the handler of line 203
SynthRaises ==
    /\ pc = "AwaitingSQL"
    /\ exc' = "GenError"
    /\ calls' = Append(calls, "synth_raise")
    /\ pc' = "Errored"
    /\ UNCHANGED << store, schema_cache, fetched, messages, prompt, raw, sql_query,
                    query, conn, openConns, description, data, rowcount, results_as_dict,
                    db_result, notices >>

\* the database calls inside the try of execute_sql_query that can raise
DbCalls == { "connect", "cursor", "execute", "fetchall", "cur_close" }

\* line 129: psycopg2.connect returns a fresh connection
Connect ==
    /\ pc = "connect"
    /\ conn' = "open"
    /\ openConns' = openConns + 1
    /\ pc' = "cursor"
    /\ UNCHANGED << store, schema_cache, fetched, messages, prompt, raw, sql_query,
                    query, description, data, rowcount, results_as_dict, db_result, exc,
                    notices, calls >>

\* line 136: conn.cursor() returns
Cursor ==
    /\ pc = "cursor"
    /\ pc' = "execute"
    /\ UNCHANGED << store, schema_cache, fetched, messages, prompt, raw, sql_query,
                    query, conn, openConns, description, data, rowcount, results_as_dict,
                    db_result, exc, notices, calls >>

\* lines 137-139, 149-150: cur.execute(query) returns; a statement without
\* column descriptors gives the status dict
Execute(d, n) ==
    /\ pc = "execute"
    /\ description' = d
    /\ rowcount' = n
    /\ IF d # NoDescription
       THEN /\ pc' = "fetchall"
            /\ UNCHANGED results_as_dict
       ELSE /\ results_as_dict' = StatusResult(n)
            /\ pc' = "cur_close"
    /\ UNCHANGED << store, schema_cache, fetched, messages, prompt, raw, sql_query,
                    query, conn, openConns, data, db_result, exc, notices, calls >>

\* lines 140-148: cur.fetchall() returns the rows, which are normalized
Fetchall(rows) ==
    /\ pc = "fetchall"
    /\ data' = rows
    /\ results_as_dict' = Normalize(description, rows)
    /\ pc' = "cur_close"
    /\ UNCHANGED << store, schema_cache, fetched, messages, prompt, raw, sql_query,
                    query, conn, openConns, description, rowcount, db_result, exc,
                    notices, calls >>

\* line 152: cur.close() returns
CurClose ==
    /\ pc = "cur_close"
    /\ pc' = "conn_close"
    /\ UNCHANGED << store, schema_cache, fetched, messages, prompt, raw, sql_query,
                    query, conn, openConns, description, data, rowcount, results_as_dict,
                    db_result, exc, notices, calls >>

\* lines 195-199, 170: where the turn goes with the executor's result: None
\* stops it after the warning, data that json.dumps rejects raises TypeError
\* inside get_final_response_from_llm, any other data reaches the model
AfterExecute(result) ==
    IF result.kind = "None" THEN "Idle"
    ELSE IF ~JsonSerializable(result) THEN "Errored"
    ELSE "AwaitingAnswer"

\* lines 153-154, 193-199: conn.close(), the result is returned to the chat
\* logic, which builds the answer prompt and calls the model
ConnClose ==
    /\ pc = "conn_close"
    /\ conn' = "closed"
    /\ openConns' = openConns - 1
    /\ db_result' = results_as_dict
    /\ pc' = AfterExecute(results_as_dict)
    /\ IF pc' = "Errored"
       THEN /\ exc' = "TypeError"
            /\ calls' = calls \o << "exec_ret", "answer_call", "answer_raise" >>
       ELSE /\ exc' = exc
            /\ calls' = calls \o << "exec_ret", "answer_call" >>
    /\ UNCHANGED << store, schema_cache, fetched, messages, prompt, raw, sql_query,
                    query, description, data, rowcount, results_as_dict, notices >>

\* a database call of lines 129-152 raises (for fetchall: the call itself or
\* the normalization of lines 141-148): control enters the handler of line 155
DbRaises ==
    /\ pc \in DbCalls
    /\ exc' = "DbError"
    /\ calls' = calls \o << "db_raise", pc >>
    /\ pc' = "except"
    /\ UNCHANGED << store, schema_cache, fetched, messages, prompt, raw, sql_query,
                    query, conn, openConns, description, data, rowcount, results_as_dict,
                    db_result, notices >>

\* lines 156-159, 193-196: st.error shows the error, the connection is
\* closed if one was opened, None is returned; the chat logic shows the
\* warning and the run ends
ExceptReturns ==
    /\ pc = "except"
    /\ notices' = notices \o << "sql_error", "warning" >>
    /\ openConns' = IF conn = "open" THEN openConns - 1 ELSE openConns
    /\ calls' = Append(calls, "exec_ret")
    /\ Finish
    /\ UNCHANGED << store, schema_cache, messages, exc >>

\* line 156 raises: lines 157-159 are not run, the new exception leaves
\* execute_sql_query and reaches the handler of line 203
ExceptRaises ==
    /\ pc = "except"
    /\ exc' = "UIError"
    /\ calls' = Append(calls, "exec_raise")
    /\ pc' = "Errored"
    /\ UNCHANGED << store, schema_cache, fetched, messages, prompt, raw, sql_query,
                    query, conn, openConns, description, data, rowcount, results_as_dict,
                    db_result, notices >>

\* lines 174-177, 199-201: the model answers; the answer is shown and
\* appended as the assistant turn
AnswerReturns ==
    /\ pc = "AwaitingAnswer"
    /\ messages' = Append(messages, Assistant(FinalResponse))
    /\ calls' = calls \o << "answer_ret", "assistant_turn" >>
    /\ Finish
    /\ UNCHANGED << store, schema_cache, openConns, exc, notices >>

\* line 174 raises: the exception reaches the handler of line 203
AnswerRaises ==
    /\ pc = "AwaitingAnswer"
    /\ exc' = "GenError"
    /\ calls' = Append(calls, "answer_raise")
    /\ pc' = "Errored"
    /\ UNCHANGED << store, schema_cache, fetched, messages, prompt, raw, sql_query,
                    query, conn, openConns, description, data, rowcount, results_as_dict,
                    db_result, notices >>

\* lines 203-205: st.error shows the error and the assistant turn with the
\* error text is appended
CatchAll ==
    /\ pc = "Errored"
    /\ notices' = Append(notices, "process_error")
    /\ messages' = Append(messages, Assistant(ErrorContent(exc)))
    /\ calls' = Append(calls, "assistant_turn")
    /\ Finish
    /\ UNCHANGED << store, schema_cache, openConns, exc >>

\* line 204 raises inside the handler: line 205 is not run, the run ends
CatchAllRaises ==
    /\ pc = "Errored"
    /\ exc' = "UIError"
    /\ Finish
    /\ UNCHANGED << store, schema_cache, messages, openConns, notices, calls >>

Next ==
    \/ \E p \in Prompts \cup { NoPrompt } : StartRun(p)
    \/ FetchRecords
    \/ FetchFails
    \/ Render
    \/ ChatInput
    \/ \E text \in LLMOutputs : SynthReturns(text)
    \/ SynthRaises
    \/ Connect
    \/ Cursor
    \/ \E d \in Descriptions \cup { NoDescription }, n \in RowCounts : Execute(d, n)
    \/ \E rows \in Seqs(DbRows(description), MaxRows) : Fetchall(rows)
    \/ CurClose
    \/ ConnClose
    \/ DbRaises
    \/ ExceptReturns
    \/ ExceptRaises
    \/ AnswerReturns
    \/ AnswerRaises
    \/ CatchAll
    \/ CatchAllRaises

Spec == Init /\ [][Next]_vars

\* every step of a run in progress: each outstanding call returns or raises
\* and the script runs on to its next call
RunStep ==
    \/ FetchRecords
    \/ FetchFails
    \/ Render
    \/ ChatInput
    \/ \E text \in LLMOutputs : SynthReturns(text)
    \/ SynthRaises
    \/ Connect
    \/ Cursor
    \/ \E d \in Descriptions \cup { NoDescription }, n \in RowCounts : Execute(d, n)
    \/ \E rows \in Seqs(DbRows(description), MaxRows) : Fetchall(rows)
    \/ CurClose
    \/ ConnClose
    \/ DbRaises
    \/ ExceptReturns
    \/ ExceptRaises
    \/ AnswerReturns
    \/ AnswerRaises
    \/ CatchAll
    \/ CatchAllRaises

\* the calls are blocking round trips without a timeout: the run goes on as
\* soon as the outstanding call returns or raises
LiveSpec == Init /\ [][Next]_vars /\ WF_vars(RunStep)

(***************************************************************************)
(* The sanitizer on every text of a bounded set: the run waits for the     *)
(* query synthesis call of its first turn and the model answers with any   *)
(* text of SanInputs.                                                      *)
(***************************************************************************)
SanAlphabet == { BT, SP, NL, "s" }
BodyAlphabet == { "s", "q", "l", SP, NL }

\* "SELECT 1;"
Select1 == << "S", "E", "L", "E", "C", "T", SP, "1", ";" >>

\* an opening fence line, untagged or tagged sql
OpenLines == { Fence \o << NL >>, OpenFence \o << NL >> }

\* the opening fence line, the body, the closing fence line
Fenced(open, body) == open \o body \o << NL >> \o Fence

SanInputs ==
    Texts(SanAlphabet, MaxLen)
    \cup { Fenced(open, body) :
             open \in OpenLines, body \in Texts(BodyAlphabet, MaxBody) \cup { Select1 } }
    \cup { pre \o OpenFence \o post :
             pre \in Texts(SanAlphabet, MaxPad), post \in Texts(SanAlphabet, MaxPad) }

AllRows == [ k \in DOMAIN DicTables |-> "rows" ]

SanInit ==
    /\ pc = "AwaitingSQL"
    /\ store = AllRows
    /\ schema_cache = RenderSchema(AllRows)
    /\ fetched = <<>>
    /\ messages = << User(<< "q" >>) >>
    /\ prompt = "q"
    /\ raw = <<>>
    /\ sql_query = <<>>
    /\ query = <<>>
    /\ conn = "None"
    /\ openConns = 0
    /\ description = NoDescription
    /\ data = <<>>
    /\ rowcount = 0
    /\ results_as_dict = NoneResult
    /\ db_result = NoneResult
    /\ exc = "None"
    /\ notices = <<>>
    /\ calls = << "user_turn", "synth_call" >>

SanNext == \E text \in SanInputs : SynthReturns(text)

SanSpec == SanInit /\ [][SanNext]_vars

(***************************************************************************)
(* Properties.                                                             *)
(***************************************************************************)
Has(e) == e \in Range(calls)
Count(e) == Cardinality({ i \in DOMAIN calls : calls[i] = e })
\* the call or append e happened in this run and the event before it was b
Follows(e, b) == \A i \in DOMAIN calls : calls[i] = e => i > 1 /\ calls[i - 1] = b

\* the run is inside execute_sql_query
InExecutor == pc \in DbCalls \cup { "conn_close", "except" }

\* C1: after a turn whose SQL execution failed (execute_sql_query returned
\* None) the history holds as many assistant turns as user turns, and the
\* last one is an error notice
TurnCompleteness ==
    (pc = "Idle" /\ Has("db_raise") /\ Has("exec_ret"))
        => /\ CountRole(messages, "assistant") = CountRole(messages, "user")
           /\ messages[Len(messages)].role = "assistant"
           /\ messages[Len(messages)].content # FinalResponse

\* C2: once connect, execute or fetch raised, execute_sql_query returns
\* (None) and raises nothing to the chat logic, and the answer synthesizer is
\* not called in that turn; it is called only after execute_sql_query
\* returned a result that is not None
ExecutionShortCircuit ==
    /\ Has("db_raise") => ~Has("exec_raise") /\ ~Has("answer_call")
    /\ Has("db_raise") /\ ~InExecutor => Has("exec_ret")
    /\ Follows("answer_call", "exec_ret")
    /\ pc = "AwaitingAnswer" => db_result.kind # "None"

\* C3: the connection a call of execute_sql_query opened is closed when the
\* call ends, so outside the call no connection is open, and at most one is
\* open at any time
ConnectionRelease ==
    /\ openConns <= 1
    /\ ~InExecutor => openConns = 0

\* C4: the text the chat logic sanitized (line 189) and the text
\* execute_sql_query sanitizes again and executes (line 127) are the same
IdempotentSanitization ==
    pc = "connect" => query = sql_query

\* the text between the opening fence line and the closing fence, when t is
\* a fenced text with no backtick in between
Middle(t, open) == SubSeq(t, Len(open) + 1, Len(t) - Len(Fence))
IsFenced(t, open) ==
    /\ HasAt(t, 1, open)
    /\ Len(t) >= Len(open) + Len(Fence)
    /\ HasAt(t, Len(t) - Len(Fence), << NL >> \o Fence)
    /\ BT \notin Range(Middle(t, open))

\* C5: a text made of an opening fence line (untagged or tagged sql), a body
\* without backtick and a closing fence line is sanitized to the body with
\* leading and trailing whitespace removed, "SELECT 1;" for the body
\* "SELECT 1;"; the sanitized text never begins or ends with whitespace and
\* that of a fenced text holds no backtick
FenceStripping ==
    pc = "connect" =>
        /\ \A open \in OpenLines :
              IsFenced(raw, open) =>
                  /\ sql_query = Strip(Middle(raw, open))
                  /\ query = Strip(Middle(raw, open))
                  /\ BT \notin Range(sql_query)
        /\ \A open \in OpenLines :
              raw = Fenced(open, Select1) => sql_query = Select1
        /\ sql_query # <<>> =>
              ~IsSpace(sql_query[1]) /\ ~IsSpace(sql_query[Len(sql_query)])

\* a fenced text tagged sql whose body has whitespace around a statement
FenceStrippingWitness ==
    /\ pc = "connect"
    /\ raw = Fenced(OpenFence \o << NL >>, << SP, "s", NL >>)
    /\ sql_query = << "s" >>

\* the number a value stands for, as a fraction << numerator, denominator >>
Num(v) ==
    IF v.t = "Decimal" THEN << v.a, Pow(10, v.b) >>
    ELSE IF v.t = "float" THEN << v.a, Pow(2, v.b) >>
    ELSE << v.a, 1 >>
SameNumber(v, w) == Num(v)[1] * Num(w)[2] = Num(w)[1] * Num(v)[2]

\* v is what the row mapping holds for the delivered value w
Delivered(v, w) ==
    IF w.t = "Decimal" THEN v.t = "float" /\ SameNumber(v, w) ELSE v = w

\* the last column of each name, the one a mapping can hold
LastOfName(j) == \A k \in DOMAIN description : description[k] = description[j] => k <= j

\* C6: a call of execute_sql_query that did not fail returns, for a
\* statement with column descriptors, the list of row mappings, one per
\* fetched row in fetch order, from the column names to the row's values
\* (the empty list for zero rows, which is not None, so the answer is
\* synthesized), and for a statement without column descriptors the dict
\* {"message": "<rowcount> linhas afetadas."}
ResultShape ==
    /\ pc \in { "cur_close", "conn_close" } =>
          IF description # NoDescription
          THEN /\ results_as_dict.kind = "list"
               /\ Len(results_as_dict.rows) = Len(data)
               /\ \A i \in DOMAIN data :
                     /\ DOMAIN results_as_dict.rows[i] = Range(description)
                     /\ \A j \in DOMAIN description :
                           LastOfName(j) =>
                               Delivered(results_as_dict.rows[i][description[j]],
                                         data[i][j])
          ELSE /\ results_as_dict.kind = "dict"
               /\ results_as_dict.message = << rowcount, " linhas afetadas." >>
    /\ Has("exec_ret") /\ ~Has("db_raise") /\ pc # "Idle" =>
          /\ db_result = results_as_dict
          /\ db_result.kind # "None"
          /\ Has("answer_call")
          /\ db_result.rows = <<>> => pc = "AwaitingAnswer" \/ exc = "GenError"

\* a statement with column descriptors and zero rows reached answer synthesis
ResultShapeWitness ==
    /\ pc = "AwaitingAnswer"
    /\ description # NoDescription
    /\ data = <<>>
    /\ db_result.kind = "list"
    /\ db_result.rows = <<>>

\* C7: no value of a returned row mapping is a Decimal, every delivered
\* Decimal is replaced by the float of the same number and every other value
\* is kept, every value is of a type json.dumps serializes, and building the
\* answer prompt does not fail
DecimalCoercion ==
    /\ \A i \in DOMAIN results_as_dict.rows :
          \A n \in DOMAIN results_as_dict.rows[i] :
              /\ results_as_dict.rows[i][n].t # "Decimal"
              /\ results_as_dict.rows[i][n].t \in JsonTypes
    /\ pc \in { "cur_close", "conn_close" } /\ description # NoDescription =>
          \A i \in DOMAIN data : \A j \in DOMAIN description :
              LastOfName(j) =>
                  Delivered(results_as_dict.rows[i][description[j]], data[i][j])
    /\ exc # "TypeError"

\* C8: after a turn in which a model call (or the building of the answer
\* prompt) raised, the history ends with the one assistant turn appended in
\* that turn, holding the error text; a failed query synthesis is followed by
\* no executor call and no answer synthesis, no call was made twice, and the
\* run is over
UnhandledFailure ==
    /\ Has("synth_raise") => ~Has("exec_call") /\ ~Has("answer_call")
    /\ Count("synth_call") <= 1 /\ Count("answer_call") <= 1
    /\ (pc = "Idle" /\ (Has("synth_raise") \/ Has("answer_raise"))) =>
          /\ Count("assistant_turn") = 1
          /\ messages # <<>>
          /\ messages[Len(messages)].role = "assistant"
          /\ messages[Len(messages)].content[1] = "Ocorreu um erro: "

\* the cache holds nothing or the rendering of all six record sets, and no
\* step of a turn is taken without it
CatalogComplete ==
    /\ schema_cache # NoSchema => schema_cache = RenderSchema(store)
    /\ pc \in { "load_schema", "render" } => schema_cache = NoSchema /\ calls = <<>>
    /\ (pc = "Idle" /\ exc \in { "FetchError", "KeyError" }) =>
          schema_cache = NoSchema /\ calls = <<>>
    /\ (calls # <<>> \/ pc \notin { "Idle", "load_schema", "render" }) =>
          schema_cache # NoSchema

\* C9: a schema text is cached only when all six fetches returned, and is
\* the rendering of the six record sets; a run in which a fetch failed (or
\* the rendering raised) ends with nothing cached, no call made and nothing
\* appended, and no step of a turn is taken without the cached schema
CatalogAllOrNothing ==
    /\ []CatalogComplete
    /\ [][ (pc \in { "load_schema", "render" } /\ schema_cache' = NoSchema) =>
              /\ pc' \in { "load_schema", "render", "Idle" }
              /\ messages' = messages
              /\ openConns' = openConns
              /\ calls' = calls ]_vars

\* a run ended by a failed fetch, in a session that has processed no turn
CatalogAllOrNothingWitness ==
    /\ pc = "Idle"
    /\ exc = "FetchError"
    /\ schema_cache = NoSchema
    /\ messages = <<>>

\* the state of the session orchestrator the run is in
OrchState(p) ==
    IF p \in { "Idle", "load_schema", "render", "chat_input" } THEN "Idle"
    ELSE IF p \in DbCalls \cup { "conn_close", "except" } THEN "AwaitingExecution"
    ELSE p

OrchTransitions ==
    { << "Idle", "AwaitingSQL" >>, << "AwaitingSQL", "AwaitingExecution" >>,
      << "AwaitingExecution", "AwaitingAnswer" >>, << "AwaitingAnswer", "Idle" >>,
      << "AwaitingSQL", "Errored" >>, << "AwaitingExecution", "Errored" >>,
      << "AwaitingAnswer", "Errored" >>, << "AwaitingExecution", "Idle" >>,
      << "Errored", "Idle" >> }

\* the order of the calls of one run
CallOrder ==
    /\ calls # <<>> => calls[1] = "user_turn"
    /\ Count("user_turn") <= 1
    /\ Count("synth_call") = Count("user_turn")
    /\ Follows("synth_call", "user_turn")
    /\ Count("exec_call") <= 1
    /\ Follows("exec_call", "synth_ret")
    /\ Count("answer_call") <= 1
    /\ Follows("answer_call", "exec_ret")
    /\ OrchState(pc) = "AwaitingSQL" => ~Has("synth_ret") /\ ~Has("exec_call")
    /\ OrchState(pc) = "AwaitingExecution" => Has("exec_call") /\ ~Has("answer_call")
    /\ OrchState(pc) = "AwaitingAnswer" => Has("answer_call") /\ ~Has("answer_ret")

====
